---- MODULE Spec2Model ----
(***************************************************************************)
(* PyCliff: the command table (pycliff/bindings.py, class Bindings) and    *)
(* the console that reads lines and dispatches them (pycliff/console.py,   *)
(* class Console).                                                         *)
(*                                                                         *)
(* A Python str is modelled as the sequence of its characters, each        *)
(* character a one-character string, so "q" is <<"q">> and '' is <<>>.     *)
(***************************************************************************)
EXTENDS Integers, Sequences, FiniteSets, TLC

(***************************************************************************)
(* Bounds of the model.                                                    *)
(***************************************************************************)
\* input() calls one run() may make before the model stops feeding it lines
MaxReads == 3
\* getArg is tried with every index in -MaxIndex .. MaxIndex
MaxIndex == 2

(***************************************************************************)
(* Strings.                                                                *)
(***************************************************************************)
\* Code points of the characters the inputs are written with.
Ord ==
  [c \in {"\n", " ", "\"", "'", "B", "\\", "a", "g", "q", "x"} |->
     CASE c = "\n" -> 10  [] c = " "  -> 32  [] c = "\"" -> 34
       [] c = "'"  -> 39  [] c = "B"  -> 66  [] c = "\\" -> 92
       [] c = "a"  -> 97  [] c = "g"  -> 103 [] c = "q"  -> 113
       [] c = "x"  -> 120]

\* Python's str < str: the first differing code point decides, a proper
\* prefix is smaller.
RECURSIVE StrLess(_, _)
StrLess(s, t) ==
  IF t = <<>> THEN FALSE
  ELSE IF s = <<>> THEN TRUE
  ELSE IF Head(s) = Head(t) THEN StrLess(Tail(s), Tail(t))
  ELSE Ord[Head(s)] < Ord[Head(t)]

\* NotRecognizedMsg with the command name left out of the text.
NotRecognizedMsg_bare(command) ==
  <<"c", "o", "m", "m", "a", "n", "d", " ", "n", "o", "t", " ",
    "r", "e", "c", "o", "g", "n", "i", "z", "e", "d">>

\* The text of the exception Bindings.execute raises:
\* f'{command}: command not recognized'
NotRecognizedMsg(command) ==
  command \o <<":", " ", "c", "o", "m", "m", "a", "n", "d", " ",
               "n", "o", "t", " ",
               "r", "e", "c", "o", "g", "n", "i", "z", "e", "d">>

(***************************************************************************)
(* shlex.split(line), as _process_command calls it: POSIX mode, splitting  *)
(* on whitespace only, no comments.  The lexer's states are named as in    *)
(* shlex: " " between tokens, "a" inside a word, a quote character inside  *)
(* that quotation, the escape character right after a backslash.           *)
(***************************************************************************)
whitespace == {" ", "\n"}
quotes == {"'", "\""}
escape == {"\\"}
escapedquotes == {"\""}

RECURSIVE read_token(_, _, _, _, _, _)
read_token(s, i, state, escapedstate, token, out) ==
  IF i > Len(s)
  THEN \* end of input
       CASE state = " "      -> [ok |-> TRUE, tokens |-> out]
         [] state = "a"      -> [ok |-> TRUE, tokens |-> Append(out, token)]
         [] state \in quotes -> [ok |-> FALSE, tokens |-> <<>>]  \* No closing quotation
         [] state \in escape -> [ok |-> FALSE, tokens |-> <<>>]  \* No escaped character
  ELSE LET c == s[i] IN
       CASE state = " " ->
              IF c \in whitespace
              THEN read_token(s, i + 1, " ", escapedstate, token, out)
              ELSE IF c \in escape
              THEN read_token(s, i + 1, c, "a", token, out)
              ELSE IF c \in quotes
              THEN read_token(s, i + 1, c, escapedstate, token, out)
              ELSE read_token(s, i + 1, "a", escapedstate, <<c>>, out)
         [] state \in quotes ->
              IF c = state
              THEN read_token(s, i + 1, "a", escapedstate, token, out)
              ELSE IF c \in escape /\ state \in escapedquotes
              THEN read_token(s, i + 1, c, state, token, out)
              ELSE read_token(s, i + 1, state, escapedstate, Append(token, c), out)
         [] state \in escape ->
              IF escapedstate \in quotes /\ c # state /\ c # escapedstate
              THEN read_token(s, i + 1, escapedstate, escapedstate,
                              token \o <<state, c>>, out)
              ELSE read_token(s, i + 1, escapedstate, escapedstate,
                              Append(token, c), out)
         [] state = "a" ->
              IF c \in whitespace
              THEN read_token(s, i + 1, " ", escapedstate, <<>>, Append(out, token))
              ELSE IF c \in quotes
              THEN read_token(s, i + 1, c, escapedstate, token, out)
              ELSE IF c \in escape
              THEN read_token(s, i + 1, c, "a", token, out)
              ELSE read_token(s, i + 1, "a", escapedstate, Append(token, c), out)

\* [ok |-> TRUE, tokens |-> the words] or, when shlex raises ValueError,
\* [ok |-> FALSE, tokens |-> <<>>].
shlex_split(line) == read_token(line, 1, " ", "a", <<>>, <<>>)

(***************************************************************************)
(* Values.  A handler is a function of the calling program; the model      *)
(* supplies one handler per way a handler can end.  "None" is Python's     *)
(* None, the one value here that is not callable.                          *)
(***************************************************************************)
None == "None"
Handlers == {"h1", "h2", "hStop", "hErr", "hCBE", "hOS", "hInt"}
HandlerValues == Handlers \cup {None}
callable(h) == h \in Handlers

\* What a call returns or raises.  value is [h, args]: which handler made it
\* from which arguments; NoneValue is a returned None.
NoneValue == [h |-> None, args |-> <<>>]
Return(v) == [kind |-> "return", exc |-> "", msg |-> <<>>, value |-> v]
Raise(e, m) == [kind |-> "raise", exc |-> e, msg |-> m, value |-> NoneValue]

\* The text a raising handler puts in its exception.
HandlerMsg == <<"x", "x">>

\* handler(*args): what the call returns or raises.  h1 and h2 return a value
\* made from their arguments, hStop is examples/hello.py's stop (returns
\* None), hErr raises an error of its own, hCBE raises
\* CommandBindingException itself, hOS fails on a file of its own, and hInt
\* is a handler during which the user's interrupt arrives.
handler_outcome(h, a) ==
  CASE h = "hStop" -> Return(NoneValue)
    [] h = "hErr"  -> Raise("RuntimeError", HandlerMsg)
    [] h = "hCBE"  -> Raise("CommandBindingException", HandlerMsg)
    [] h = "hOS"   -> Raise("OSError", HandlerMsg)
    [] h = "hInt"  -> Raise("KeyboardInterrupt", <<>>)
    [] OTHER       -> Return([h |-> h, args |-> a])

\* stop() assigning nothing
stop_noop(run) == run

\* Console.stop(): self._running = False
stop(run) == FALSE

\* handler(*args): what the call does to the console's running flag.
handler_running(h, run) == IF h = "hStop" THEN stop(run) ELSE run

(***************************************************************************)
(* Bindings.                                                               *)
(***************************************************************************)
\* add as dict.setdefault would do it: a name already bound keeps its handler.
add_keep_first(cmds, command, handler) ==
  [c \in DOMAIN cmds \cup {command} |->
     IF c \in DOMAIN cmds THEN cmds[c] ELSE handler]

\* add rebuilding the table from its one argument: self._commands =
\* {command: handler}
add_only(cmds, command, handler) == [c \in {command} |-> handler]

\* self._commands[command] = handler
add(cmds, command, handler) ==
  [c \in DOMAIN cmds \cup {command} |->
     IF c = command THEN handler ELSE cmds[c]]

\* self._default = handler
setDefault(dflt, handler) == handler

\* key in self._commands
contains(cmds, key) == key \in DOMAIN cmds

\* sorted with the order reversed.
RECURSIVE sorted_desc(_)
sorted_desc(S) ==
  IF S = {} THEN <<>>
  ELSE LET m == CHOOSE e \in S : \A o \in S \ {e} : StrLess(o, e)
       IN <<m>> \o sorted_desc(S \ {m})

\* sorted(): the keys in ascending order of Python's str comparison.
RECURSIVE sorted(_)
sorted(S) ==
  IF S = {} THEN <<>>
  ELSE LET m == CHOOSE e \in S : \A o \in S \ {e} : StrLess(e, o)
       IN <<m>> \o sorted(S \ {m})

\* sorted(self._commands.keys())
asList(cmds) == sorted(DOMAIN cmds)

\* len(self._args)
argc(a) == Len(a)

\* self._args[index] of a Python sequence: a negative index counts from the
\* end, an index outside -len .. len-1 raises IndexError.
subscript(a, index) ==
  IF 0 <= index /\ index < Len(a) THEN Return(a[index + 1])
  ELSE IF index < 0 /\ -index <= Len(a) THEN Return(a[Len(a) + index + 1])
  ELSE Raise("IndexError", <<>>)

\* Bindings.getArg(index, default)
getArg(a, index, dflt) ==
  IF index >= argc(a) THEN Return(dflt) ELSE subscript(a, index)

\* get without its fallback: self._commands.get(command)
get_no_default(cmds, command, dflt) ==
  IF command \in DOMAIN cmds THEN cmds[command] ELSE None

\* the fallback written with "or": self._commands.get(command) or
\* self._default, which also replaces a None found in the table
get_or_default(cmds, command, dflt) ==
  IF command \in DOMAIN cmds /\ cmds[command] # None
  THEN cmds[command] ELSE dflt

\* self._commands.get(command, self._default)
get(cmds, command, dflt) ==
  IF command \in DOMAIN cmds THEN cmds[command] ELSE dflt

\* execute without the test for an empty call: commands[0] raises IndexError.
execute_unguarded(cmds, dflt, a, run, tokens) ==
  IF Len(tokens) = 0
  THEN [args |-> a, running |-> run, invoked |-> <<>>, seen |-> <<>>,
        outcome |-> Raise("IndexError", <<>>)]
  ELSE LET handler == IF Head(tokens) \in DOMAIN cmds
                      THEN cmds[Head(tokens)] ELSE dflt
       IN IF ~callable(handler)
          THEN [args |-> Tail(tokens), running |-> run, invoked |-> <<>>,
                seen |-> <<>>,
                outcome |-> Raise("CommandBindingException",
                                  NotRecognizedMsg(Head(tokens)))]
          ELSE [args |-> Tail(tokens),
                running |-> handler_running(handler, run),
                invoked |-> <<[h |-> handler, args |-> Tail(tokens)]>>,
                seen |-> <<Tail(tokens)>>,
                outcome |-> handler_outcome(handler, Tail(tokens))]

\* execute storing the arguments only once a handler is found.
execute_late_args(cmds, dflt, a, run, tokens) ==
  IF Len(tokens) = 0
  THEN [args |-> a, running |-> run, invoked |-> <<>>, seen |-> <<>>,
        outcome |-> Return(NoneValue)]
  ELSE LET handler == IF Head(tokens) \in DOMAIN cmds
                      THEN cmds[Head(tokens)] ELSE dflt
       IN IF ~callable(handler)
          THEN [args |-> a, running |-> run, invoked |-> <<>>,
                seen |-> <<>>,
                outcome |-> Raise("CommandBindingException",
                                  NotRecognizedMsg(Head(tokens)))]
          ELSE [args |-> Tail(tokens),
                running |-> handler_running(handler, run),
                invoked |-> <<[h |-> handler, args |-> Tail(tokens)]>>,
                seen |-> <<Tail(tokens)>>,
                outcome |-> handler_outcome(handler, Tail(tokens))]

\* execute keeping the tokens in a local and storing them in self._args only
\* after the handler has run.
execute_args_after_call(cmds, dflt, a, run, tokens) ==
  IF Len(tokens) = 0
  THEN [args |-> a, running |-> run, invoked |-> <<>>, seen |-> <<>>,
        outcome |-> Return(NoneValue)]
  ELSE LET handler == IF Head(tokens) \in DOMAIN cmds
                      THEN cmds[Head(tokens)] ELSE dflt
       IN IF ~callable(handler)
          THEN [args |-> Tail(tokens), running |-> run, invoked |-> <<>>,
                seen |-> <<>>,
                outcome |-> Raise("CommandBindingException",
                                  NotRecognizedMsg(Head(tokens)))]
          ELSE [args |-> Tail(tokens),
                running |-> handler_running(handler, run),
                invoked |-> <<[h |-> handler, args |-> Tail(tokens)]>>,
                seen |-> <<a>>,
                outcome |-> handler_outcome(handler, Tail(tokens))]

\* Bindings.execute(*commands) in a state with table cmds, default dflt,
\* arguments a and running flag run: the arguments and the flag afterwards,
\* the handler calls made (invoked) with, for each, the self._args it finds
\* while it runs (seen), and what the call returns or raises.  Line 106
\* stores the arguments, line 110 reads them back for the call.
execute(cmds, dflt, a, run, tokens) ==
  IF Len(tokens) = 0
  THEN [args |-> a, running |-> run, invoked |-> <<>>, seen |-> <<>>,
        outcome |-> Return(NoneValue)]
  ELSE LET command == Head(tokens)
           newargs == Tail(tokens)
           handler == get(cmds, command, dflt)
       IN IF ~callable(handler)
          THEN [args |-> newargs, running |-> run, invoked |-> <<>>,
                seen |-> <<>>,
                outcome |-> Raise("CommandBindingException",
                                  NotRecognizedMsg(command))]
          ELSE [args |-> newargs,
                running |-> handler_running(handler, run),
                invoked |-> <<[h |-> handler, args |-> newargs]>>,
                seen |-> <<newargs>>,
                outcome |-> handler_outcome(handler, newargs)]

\* _process_command without its except clause.
process_command_nocatch(cmds, dflt, a, run, line) ==
  LET sp == shlex_split(line) IN
  IF ~sp.ok
  THEN [args |-> a, running |-> run, split |-> FALSE, tokens |-> <<>>,
        invoked |-> <<>>, seen |-> <<>>, dispatch |-> Return(NoneValue), shown |-> <<>>,
        outcome |-> Raise("ValueError", <<>>)]
  ELSE LET r == execute(cmds, dflt, a, run, sp.tokens)
       IN [args |-> r.args, running |-> r.running, split |-> TRUE,
           tokens |-> sp.tokens, invoked |-> r.invoked, seen |-> r.seen,
           dispatch |-> r.outcome, shown |-> <<>>,
           outcome |-> IF r.outcome.kind = "raise"
                       THEN r.outcome ELSE Return(NoneValue)]

(***************************************************************************)
(* Console._process_command(line): the state afterwards (args, running),   *)
(* the tokens handed to Bindings.execute, what that call returned or       *)
(* raised (dispatch), the messages displayed, and what _process_command    *)
(* itself returns or raises.                                               *)
(***************************************************************************)
process_command(cmds, dflt, a, run, line) ==
  LET sp == shlex_split(line) IN
  IF ~sp.ok
  THEN [args |-> a, running |-> run, split |-> FALSE, tokens |-> <<>>,
        invoked |-> <<>>, seen |-> <<>>, dispatch |-> Return(NoneValue), shown |-> <<>>,
        outcome |-> Raise("ValueError", <<>>)]
  ELSE LET r == execute(cmds, dflt, a, run, sp.tokens)
           caught == /\ r.outcome.kind = "raise"
                     /\ r.outcome.exc = "CommandBindingException"
       IN [args |-> r.args, running |-> r.running, split |-> TRUE,
           tokens |-> sp.tokens, invoked |-> r.invoked, seen |-> r.seen,
           dispatch |-> r.outcome,
           shown |-> IF caught THEN <<r.outcome.msg>> ELSE <<>>,
           outcome |-> IF r.outcome.kind = "raise" /\ ~caught
                       THEN r.outcome ELSE Return(NoneValue)]

(***************************************************************************)
(* Inputs: the strings, registrations, token sequences, input lines and    *)
(* script files the calling program and the user are taken from.           *)
(***************************************************************************)
sEmpty == <<>>
sQ == <<"q">>
sG == <<"g">>
sGQ == <<"g", "q">>
sB == <<"B">>
sA == <<"a">>
sX == <<"x">>

Names == {sEmpty, sG, sGQ, sQ}

\* add(command, handler) calls
Registrations ==
  {<<sQ, "h1">>, <<sQ, "h2">>, <<sQ, "hStop">>, <<sG, "hErr">>,
   <<sG, None>>, <<sGQ, "hCBE">>, <<sGQ, "hOS">>, <<sEmpty, "hInt">>}

\* setDefault(handler) calls
Defaults == {None, "h2"}

\* Bindings.execute(*commands) calls
TokenLists ==
  {<<>>, <<sQ>>, <<sQ, sA, sB>>, <<sG>>, <<sGQ>>, <<sX>>, <<sX, sA>>,
   <<sEmpty, sA>>}

\* getArg(index, default) fallbacks
Fallbacks == {<<>>, <<"x">>}

\* lines the user types at run()'s prompt
Lines ==
  {<<"q">>, <<"q", " ", "a", " ", "B">>, <<"g">>, <<"g", "q">>,
   <<"x">>, <<"x", " ", "'", "a", " ", "B", "'">>,
   <<>>, <<"'", "'">>, <<"'", "x">>}

\* script files: a readable one is the sequence of its lines
Files ==
  {[readable |-> FALSE, lines |-> <<>>],
   [readable |-> TRUE, lines |-> <<>>],
   [readable |-> TRUE, lines |-> << <<"g", "\n">>, <<"q", "\n">> >>],
   [readable |-> TRUE,
    lines |-> << <<"q", " ", "a", "\n">>, <<"\n">>, <<"x", " ", "B", "\n">> >>],
   [readable |-> TRUE, lines |-> << <<"x", "\n">>, <<"g", "q", "\n">>, <<"q">> >>]}

\* Texts Console displays.
ExitingMsg == <<"E", "x", "i", "t", "i", "n", "g", ".", ".", ".">>
TerminatingMsg ==
  <<"T", "e", "r", "m", "i", "n", "a", "t", "i", "n", "g", ".", ".", ".">>
ScriptErrorMsg ==
  <<"A", "n", " ", "e", "r", "r", "o", "r", " ", "o", "c", "c", "u", "r",
    "r", "e", "d", " ", "w", "h", "i", "l", "e", " ", "o", "p", "e", "n",
    "i", "n", "g", " ", "s", "c", "r", "i", "p", "t", " ", "f", "i", "l", "e">>

(***************************************************************************)
(* State.                                                                  *)
(***************************************************************************)
VARIABLES
  commands,    \* Bindings._commands: command name -> handler value
  default,     \* Bindings._default
  args,        \* Bindings._args
  running,     \* Console._running
  pc,          \* "idle", or "run" / "exec" while that call is in progress
  script,      \* execute(filename): the lines of the open script
  pos,         \* execute(filename): lines handed to the loop body so far
  reads,       \* run(): input() calls made so far
  registered,  \* history: the handler of the latest add call per name
  stopped,     \* history: stop() was called since run/execute was entered
  processed,   \* history: the lines execute(filename) has dispatched
  last         \* the latest operation: its inputs and what it did

vars == <<commands, default, args, running, pc, script, pos, reads,
          registered, stopped, processed, last>>

bindings == <<commands, default, args>>
loop == <<pc, script, pos, reads, stopped, processed>>

NoObs ==
  [op |-> "init", line |-> <<>>, tokens |-> <<>>, command |-> <<>>,
   handler |-> None, index |-> 0, dflt |-> <<>>, invoked |-> <<>>,
   dispatch |-> Return(NoneValue), outcome |-> Return(NoneValue),
   shown |-> <<>>, call |-> Return(NoneValue), file |-> <<>>, done |-> <<>>,
   reads |-> 0, stopped |-> FALSE, called |-> FALSE, replaced |-> None,
   seen |-> <<>>]

Init ==
  /\ commands = << >>
  /\ default = None
  /\ args = <<>>
  /\ running = FALSE
  /\ pc = "idle"
  /\ script = <<>>
  /\ pos = 0
  /\ reads = 0
  /\ registered = << >>
  /\ stopped = FALSE
  /\ processed = <<>>
  /\ last = NoObs

(***************************************************************************)
(* The calling program's operations, made between run/execute calls.       *)
(***************************************************************************)
\* Bindings.add(command, handler) (Console.register's decorator)
Add(command, handler) ==
  /\ pc = "idle"
  /\ commands' = add(commands, command, handler)
  /\ registered' = [c \in DOMAIN registered \cup {command} |->
                      IF c = command THEN handler ELSE registered[c]]
  /\ last' = [NoObs EXCEPT !.op = "add", !.command = command,
                           !.handler = handler,
                           !.replaced = get(commands, command, None),
                           !.outcome = Return([h |-> handler, args |-> <<>>])]
  /\ UNCHANGED <<default, args, running, pc, script, pos, reads,
                 stopped, processed>>

\* Bindings.setDefault(handler) (Console.default)
SetDefault(handler) ==
  /\ pc = "idle"
  /\ default' = setDefault(default, handler)
  /\ last' = [NoObs EXCEPT !.op = "setDefault", !.handler = handler,
                           !.outcome = Return([h |-> handler, args |-> <<>>])]
  /\ UNCHANGED <<commands, args, running, registered>>
  /\ UNCHANGED loop

\* command in bindings
Contains(key) ==
  /\ pc = "idle"
  /\ last' = [NoObs EXCEPT !.op = "contains", !.command = key,
                           !.outcome = Return(contains(commands, key))]
  /\ UNCHANGED <<bindings, running, registered>>
  /\ UNCHANGED loop

\* Bindings.asList() (Console.commandList)
AsList ==
  /\ pc = "idle"
  /\ last' = [NoObs EXCEPT !.op = "asList",
                           !.outcome = Return(asList(commands))]
  /\ UNCHANGED <<bindings, running, registered>>
  /\ UNCHANGED loop

\* Bindings.getArg(index, default) (Console.getArg)
GetArg(index, dflt) ==
  /\ pc = "idle"
  /\ last' = [NoObs EXCEPT !.op = "getArg", !.index = index, !.dflt = dflt,
                           !.outcome = getArg(args, index, dflt)]
  /\ UNCHANGED <<bindings, running, registered>>
  /\ UNCHANGED loop

\* Bindings.execute(*tokens), called directly
Execute(tokens) ==
  /\ pc = "idle"
  /\ LET r == execute(commands, default, args, running, tokens) IN
       /\ args' = r.args
       /\ running' = r.running
       /\ last' = [NoObs EXCEPT !.op = "execute", !.tokens = tokens,
                                !.called = TRUE,
                                !.invoked = r.invoked,
                                !.seen = r.seen,
                                !.dispatch = r.outcome,
                                !.outcome = r.outcome]
  /\ UNCHANGED <<commands, default, registered>>
  /\ UNCHANGED loop

\* Console.stop(), called outside any handler
Stop ==
  /\ pc = "idle"
  /\ running' = stop(running)
  /\ last' = [NoObs EXCEPT !.op = "stop"]
  /\ UNCHANGED <<bindings, registered>>
  /\ UNCHANGED loop

(***************************************************************************)
(* Console.run() and Console.execute(filename).  A call in progress is     *)
(* between two of its steps where it waits for input() or is about to take *)
(* the next line of the script.  In last, outcome is what _process_command *)
(* returned or raised and call is what run/execute did with it:            *)
(* InProgress, or what the call returned or raised to its caller.          *)
(***************************************************************************)
InProgress == [kind |-> "in progress", exc |-> "", msg |-> <<>>,
               value |-> NoneValue]

\* some call in invoked was to a handler that calls stop()
calls_stop(invoked) == \E i \in DOMAIN invoked : invoked[i].h = "hStop"

\* run()'s try/except with the except clause left out.
run_except_nocatch(o) ==
  IF o.kind # "raise" THEN [shown |-> <<>>, call |-> InProgress]
  ELSE [shown |-> <<>>, call |-> o]

\* run()'s try/except around its loop: the messages displayed and how the
\* call goes on after the loop body ended with outcome o.
run_except(o) ==
  IF o.kind # "raise" THEN [shown |-> <<>>, call |-> InProgress]
  ELSE IF o.exc = "KeyboardInterrupt"
  THEN [shown |-> << <<>>, ExitingMsg >>, call |-> Return(NoneValue)]
  ELSE [shown |-> <<>>, call |-> o]

\* execute(filename)'s try/except around its loop.
execute_except(o) ==
  IF o.kind # "raise" THEN [shown |-> <<>>, call |-> InProgress]
  ELSE IF o.exc \in {"IOError", "OSError"}
  THEN [shown |-> <<ScriptErrorMsg>>, call |-> Return(NoneValue)]
  ELSE IF o.exc = "KeyboardInterrupt"
  THEN [shown |-> <<TerminatingMsg>>, call |-> Return(NoneValue)]
  ELSE [shown |-> <<>>, call |-> o]

\* while True
loop_always(run) == TRUE

\* while (self._running)
loop_continues(run) == run

\* the script loop made to end once the console is stopped
script_continues_running(run, p, lines) == run /\ p < Len(lines)

\* for command in script: there is a next line
script_continues(run, p, lines) == p < Len(lines)

\* the call is over: nothing of it is kept
Leave ==
  /\ pc' = "idle"
  /\ script' = <<>>
  /\ pos' = 0
  /\ reads' = 0
  /\ stopped' = FALSE
  /\ processed' = <<>>

\* the operation before this one was a stop() call made outside run(): by
\* the calling program, or by a handler of a script line
stop_just_called ==
  \/ last.op = "stop"
  \/ last.op \in {"execLine", "execEnd", "execInterrupt"} /\ last.stopped

\* run() without its assignment to self._running
Run_keeps_flag ==
  /\ pc = "idle"
  /\ pc' = "run"
  /\ reads' = 0
  /\ stopped' = FALSE
  /\ last' = [NoObs EXCEPT !.op = "run", !.call = InProgress,
                           !.stopped = stop_just_called]
  /\ UNCHANGED <<bindings, running, script, pos, registered, processed>>

\* run() up to its first input(): self._running = True (the greeting, which
\* no later step reads, is left out).  last.stopped records whether stop()
\* had just been called.
Run ==
  /\ pc = "idle"
  /\ running' = TRUE
  /\ pc' = "run"
  /\ reads' = 0
  /\ stopped' = FALSE
  /\ last' = [NoObs EXCEPT !.op = "run", !.call = InProgress,
                           !.stopped = stop_just_called]
  /\ UNCHANGED <<bindings, script, pos, registered, processed>>

\* one iteration of run()'s loop: input() returns line, which is processed
RunLine(line) ==
  /\ pc = "run"
  /\ loop_continues(running)
  /\ reads < MaxReads
  /\ LET r == process_command(commands, default, args, running, line)
         e == run_except(r.outcome)
     IN /\ args' = r.args
        /\ running' = r.running
        /\ last' = [NoObs EXCEPT !.op = "runLine", !.line = line,
                                 !.called = r.split,
                                 !.tokens = r.tokens, !.invoked = r.invoked,
                                 !.seen = r.seen,
                                 !.dispatch = r.dispatch,
                                 !.outcome = r.outcome,
                                 !.shown = r.shown \o e.shown,
                                 !.call = e.call,
                                 !.reads = reads + 1,
                                 !.stopped = stopped \/ calls_stop(r.invoked)]
        /\ IF e.call = InProgress
           THEN /\ reads' = reads + 1
                /\ stopped' = (stopped \/ calls_stop(r.invoked))
                /\ UNCHANGED <<pc, script, pos, processed>>
           ELSE Leave
  /\ UNCHANGED <<commands, default, registered>>

\* the loop condition is false: run() returns
RunReturn ==
  /\ pc = "run"
  /\ ~loop_continues(running)
  /\ last' = [NoObs EXCEPT !.op = "runReturn", !.reads = reads,
                           !.stopped = stopped]
  /\ Leave
  /\ UNCHANGED <<bindings, running, registered>>

\* the interrupt arrives while run() is in its loop, outside any handler
RunInterrupt ==
  /\ pc = "run"
  /\ last' = [NoObs EXCEPT !.op = "runInterrupt",
                !.shown = run_except(Raise("KeyboardInterrupt", <<>>)).shown,
                !.call = run_except(Raise("KeyboardInterrupt", <<>>)).call,
                !.reads = reads, !.stopped = stopped]
  /\ Leave
  /\ UNCHANGED <<bindings, running, registered>>

\* input() finds the end of standard input and raises EOFError
RunEOF ==
  /\ pc = "run"
  /\ loop_continues(running)
  /\ last' = [NoObs EXCEPT !.op = "runEOF",
                !.shown = run_except(Raise("EOFError", <<>>)).shown,
                !.call = run_except(Raise("EOFError", <<>>)).call,
                !.reads = reads + 1, !.stopped = stopped]
  /\ Leave
  /\ UNCHANGED <<bindings, running, registered>>

\* execute(filename) up to the first line: open(filename)
ExecOpen(f) ==
  /\ pc = "idle"
  /\ IF f.readable
     THEN /\ pc' = "exec"
          /\ script' = f.lines
          /\ pos' = 0
          /\ processed' = <<>>
          /\ stopped' = FALSE
          /\ last' = [NoObs EXCEPT !.op = "exec", !.file = f.lines,
                                                                      !.call = InProgress]
          /\ UNCHANGED reads
     ELSE /\ last' = [NoObs EXCEPT !.op = "execFail",
                        !.shown =
                          execute_except(Raise("OSError", <<>>)).shown,
                        !.call = execute_except(Raise("OSError", <<>>)).call]
          /\ UNCHANGED loop
  /\ UNCHANGED <<bindings, running, registered>>

\* one iteration of "for command in script"
ExecLine ==
  /\ pc = "exec"
  /\ script_continues(running, pos, script)
  /\ LET line == script[pos + 1]
         r == process_command(commands, default, args, running, line)
         e == execute_except(r.outcome)
     IN /\ args' = r.args
        /\ running' = r.running
        /\ last' = [NoObs EXCEPT !.op = "execLine", !.line = line,
                                 !.called = r.split,
                                 !.tokens = r.tokens, !.invoked = r.invoked,
                                 !.seen = r.seen,
                                 !.dispatch = r.dispatch,
                                 !.outcome = r.outcome,
                                 !.shown = r.shown \o e.shown,
                                 !.call = e.call,
                                 !.file = script,
                                 !.done = Append(processed, line),
                                 !.stopped = stopped \/ calls_stop(r.invoked)]
        /\ IF e.call = InProgress
           THEN /\ pos' = pos + 1
                /\ processed' = Append(processed, line)
                /\ stopped' = (stopped \/ calls_stop(r.invoked))
                /\ UNCHANGED <<pc, script, reads>>
           ELSE Leave
  /\ UNCHANGED <<commands, default, registered>>

\* the script has no more lines: execute(filename) returns
ExecEnd ==
  /\ pc = "exec"
  /\ ~script_continues(running, pos, script)
  /\ last' = [NoObs EXCEPT !.op = "execEnd", !.file = script,
                           !.done = processed, !.stopped = stopped]
  /\ Leave
  /\ UNCHANGED <<bindings, running, registered>>

\* the interrupt arrives between two lines of the script
ExecInterrupt ==
  /\ pc = "exec"
  /\ last' = [NoObs EXCEPT !.op = "execInterrupt",
                !.shown = execute_except(Raise("KeyboardInterrupt", <<>>)).shown,
                !.call = execute_except(Raise("KeyboardInterrupt", <<>>)).call,
                !.file = script, !.done = processed, !.stopped = stopped]
  /\ Leave
  /\ UNCHANGED <<bindings, running, registered>>

Next ==
  \/ \E reg \in Registrations : Add(reg[1], reg[2])
  \/ \E h \in Defaults : SetDefault(h)
  \/ \E key \in Names \cup {sX} : Contains(key)
  \/ AsList
  \/ \E i \in -MaxIndex .. MaxIndex, d \in Fallbacks : GetArg(i, d)
  \/ \E tokens \in TokenLists : Execute(tokens)
  \/ Stop
  \/ Run
  \/ \E line \in Lines : RunLine(line)
  \/ RunReturn
  \/ RunInterrupt
  \/ RunEOF
  \/ \E f \in Files : ExecOpen(f)
  \/ ExecLine
  \/ ExecEnd
  \/ ExecInterrupt

Spec == Init /\ [][Next]_vars

(***************************************************************************)
(* Properties.  "the call" below is the Bindings.execute call of the       *)
(* latest operation (last.called): made directly, or by _process_command   *)
(* for a line of run() or of a script.                                     *)
(***************************************************************************)
\* the text ": command not recognized", written out
Suffix ==
  <<":", " ", "c", "o", "m", "m", "a", "n", "d", " ", "n", "o", "t", " ",
    "r", "e", "c", "o", "g", "n", "i", "z", "e", "d">>

NotRecognized(command) == Raise("CommandBindingException", command \o Suffix)

\* C1: Bindings.execute with no tokens is a no-op: no handler is invoked,
\* nothing is raised (it returns None), and lastArgs, the running flag, the
\* table and the default are what they were before the call.
C1_EmptyExecuteNoOp ==
  [][(last'.called /\ last'.tokens = <<>>) =>
       /\ last'.invoked = <<>>
       /\ last'.dispatch = Return(NoneValue)
       /\ args' = args
       /\ \A i \in -MaxIndex .. MaxIndex, d \in Fallbacks :
            getArg(args', i, d) = getArg(args, i, d)
       /\ UNCHANGED <<commands, default, running>>]_vars

\* an empty call made while lastArgs, the table and the default are all set
C1_Witness ==
  /\ last.op = "execute"
  /\ last.called
  /\ last.tokens = <<>>
  /\ args = <<sA, sB>>
  /\ DOMAIN commands # {}
  /\ callable(default)

\* C2: a call whose command is not registered, made while no default handler
\* is set, invokes no handler and raises CommandBindingException with the text
\* "<command>: command not recognized".
C2_UnregisteredNotRecognized ==
  (/\ last.called
   /\ last.tokens # <<>>
   /\ Head(last.tokens) \notin DOMAIN commands
   /\ default = None)
  => /\ last.invoked = <<>>
     /\ last.dispatch = NotRecognized(Head(last.tokens))

\* execute("x", "a") with "x" unregistered, other names registered, no default
C2_Witness ==
  /\ last.op = "execute"
  /\ last.tokens = <<sX, sA>>
  /\ DOMAIN commands # {}
  /\ default = None
  /\ last.dispatch.kind = "raise"
  /\ last.dispatch.msg = <<"x">> \o Suffix

\* C3: getArg(index, default) returns lastArgs[index] when 0 <= index < argc
\* and default otherwise, for every integer index, negative ones included; it
\* never raises and never counts from the end of lastArgs.
C3_GetArgInRangeOrDefault ==
  last.op = "getArg" =>
    last.outcome =
      IF 0 <= last.index /\ last.index < argc(args)
      THEN Return(args[last.index + 1])
      ELSE Return(last.dflt)

\* C4: after a call with at least one token, whatever its outcome, lastArgs is
\* the tokens after the first: argc is the token count minus one, getArg(i)
\* is token i + 1 for every i below argc and the fallback at and above argc.
C4_ArgsAreRestOfTokens ==
  (last.called /\ last.tokens # <<>>) =>
    /\ args = Tail(last.tokens)
    /\ argc(args) = Len(last.tokens) - 1
    /\ \A d \in Fallbacks :
         /\ \A i \in 0 .. Len(last.tokens) - 2 :
              getArg(args, i, d) = Return(last.tokens[i + 2])
         /\ \A i \in Len(last.tokens) - 1 .. Len(last.tokens) + MaxIndex :
              getArg(args, i, d) = Return(d)

\* a call that failed as not recognized and still left its argument behind
C4_Witness ==
  /\ last.called
  /\ last.tokens = <<sX, sA>>
  /\ last.dispatch = NotRecognized(sX)
  /\ args = <<sA>>
  /\ getArg(args, 0, <<>>) = Return(sA)

\* C5: while a default handler is set, a call whose command is not registered
\* invokes the default handler once, with the tokens after the first as its
\* arguments, and returns or raises what that handler does, not the
\* not-recognized error; a call whose command is registered is never handed to
\* the default: it invokes nothing but the handler the table holds for it.
C5_DefaultHandlesUnregistered ==
  (last.called /\ last.tokens # <<>>) =>
    LET command == Head(last.tokens) IN
    /\ (command \notin DOMAIN commands /\ callable(default)) =>
         /\ last.invoked = <<[h |-> default, args |-> Tail(last.tokens)]>>
         /\ last.dispatch = handler_outcome(default, Tail(last.tokens))
         /\ last.dispatch # NotRecognized(command)
    /\ command \in DOMAIN commands =>
         /\ \A i \in DOMAIN last.invoked :
              last.invoked[i].h = commands[command]
         /\ ~callable(commands[command]) => last.invoked = <<>>

\* a lone unregistered command word handed to the default, with no arguments
C5_Witness ==
  /\ last.called
  /\ last.tokens = <<sX>>
  /\ default = "h2"
  /\ sQ \in DOMAIN commands
  /\ last.invoked = <<[h |-> "h2", args |-> <<>>]>>
  /\ last.dispatch = Return([h |-> "h2", args |-> <<>>])

\* C6: the table holds, for every name registered so far, exactly the handler
\* of the latest add call for that name (one handler per name), and a call
\* whose command is registered invokes no handler but that one: after
\* add("q", h1) then add("q", h2), execute("q") never invokes h1.
C6_LatestRegistrationWins ==
  /\ DOMAIN commands = DOMAIN registered
  /\ \A c \in DOMAIN registered : commands[c] = registered[c]
  /\ (last.called /\ last.tokens # <<>>
        /\ Head(last.tokens) \in DOMAIN registered) =>
       \A i \in DOMAIN last.invoked :
         last.invoked[i].h = registered[Head(last.tokens)]
  /\ last.op = "add" => commands[last.command] = last.handler

\* add("q", h2) has just replaced the h1 that add("q", h1) had bound
C6_Witness ==
  /\ last.op = "add"
  /\ last.command = sQ
  /\ last.replaced = "h1"
  /\ last.handler = "h2"
  /\ commands[sQ] = "h2"

\* s is before t in Python's order of str: at the first position where they
\* differ the code point of s is the smaller, or s is a proper prefix of t
Before(s, t) ==
  \/ /\ Len(s) < Len(t)
     /\ \A k \in 1 .. Len(s) : s[k] = t[k]
  \/ \E k \in 1 .. Len(s) :
       /\ k <= Len(t)
       /\ \A j \in 1 .. k - 1 : s[j] = t[j]
       /\ Ord[s[k]] < Ord[t[k]]

\* C7: asList() returns the names registered so far, each once, in ascending
\* order, whatever was registered and however often; contains(name) is true
\* exactly for the names in that list.
C7_AsListSortedNames ==
  /\ last.op = "asList" =>
       LET l == last.outcome.value IN
       /\ {l[i] : i \in DOMAIN l} = DOMAIN registered
       /\ Len(l) = Cardinality(DOMAIN registered)
       /\ \A i \in 1 .. Len(l) - 1 : Before(l[i], l[i + 1])
  /\ last.op = "contains" =>
       last.outcome.value =
         (\E i \in DOMAIN asList(commands) :
            asList(commands)[i] = last.command)

\* every name of the inputs is registered and listed
C7_Witness ==
  /\ last.op = "asList"
  /\ last.outcome.value = <<sEmpty, sG, sGQ, sQ>>

\* C8: in run(), once a handler has called stop(), the next thing the call
\* does is return: no further input() call, no further handler invocation.
C8_StopEndsRun ==
  [][(pc = "run" /\ stopped) =>
       /\ pc' = "idle"
       /\ last'.reads = reads
       /\ last'.invoked = <<>>
       /\ last'.call.kind = "return"]_vars

\* run() returned after the one line whose handler called stop()
C8_Witness ==
  /\ last.op = "runReturn"
  /\ last.stopped
  /\ last.reads = 1
  /\ ~running

\* C9: execute(filename) hands the lines of a readable script to
\* _process_command in file order, each once, and the running flag has no
\* part in it: while the call is in progress the lines processed are the
\* first pos lines of the file, and when the loop runs out of lines they are
\* the whole file, also when a handler of an earlier line called stop().
C9_ScriptRunsToItsEnd ==
  /\ pc = "exec" =>
       /\ pos <= Len(script)
       /\ processed = SubSeq(script, 1, pos)
       /\ (pos < Len(script)) => ENABLED ExecLine
  /\ last.op = "execLine" =>
       /\ Len(last.done) <= Len(last.file)
       /\ last.done = SubSeq(last.file, 1, Len(last.done))
       /\ last.line = last.file[Len(last.done)]
  /\ last.op = "execEnd" => last.done = last.file

\* a three-line script ran to its end though its first line stopped the
\* console ("q" bound to hStop); the third line left its argument behind
C9_Witness ==
  /\ last.op = "execEnd"
  /\ last.stopped
  /\ ~running
  /\ last.file = << <<"q", " ", "a", "\n">>, <<"\n">>, <<"x", " ", "B", "\n">> >>
  /\ last.done = last.file
  /\ args = <<sB>>

\* C10: a line, of run() or of a script, that names an unregistered command
\* while no default is set displays "<command>: command not recognized" and
\* nothing else, no exception leaves _process_command, the running flag is
\* unchanged and the call goes on with its loop: run() has made one more
\* input() call and stays in its loop, execute(filename) is one line further.
C10_NotRecognizedGoesOn ==
  [][(/\ last'.op \in {"runLine", "execLine"}
      /\ last'.called
      /\ last'.tokens # <<>>
      /\ Head(last'.tokens) \notin DOMAIN commands
      /\ default = None) =>
       /\ last'.shown = <<Head(last'.tokens) \o Suffix>>
       /\ last'.outcome = Return(NoneValue)
       /\ last'.invoked = <<>>
       /\ last'.call = InProgress
       /\ running' = running
       /\ pc' = pc
       /\ pc = "run" => (reads' = reads + 1 /\ running')
       /\ pc = "exec" => (pos' = pos + 1 /\ processed' = Append(processed, last'.line))]_vars

\* run() displayed the message for "x" and waits for the next line
C10_Witness ==
  /\ last.op = "runLine"
  /\ last.tokens = <<sX, <<"a", " ", "B">> >>
  /\ last.shown = << <<"x">> \o Suffix >>
  /\ pc = "run"
  /\ running
  /\ reads < MaxReads
  /\ ENABLED (\E line \in Lines : RunLine(line))

\* the latest operation was a line of run() or of a script whose handler
\* raised an error (the user's interrupt arriving during a handler is C12's)
HandlerRaised ==
  /\ last.op \in {"runLine", "execLine"}
  /\ last.invoked # <<>>
  /\ last.dispatch.kind = "raise"
  /\ last.dispatch.exc # "KeyboardInterrupt"

\* C11: an error raised by a handler, of whatever kind, is caught neither by
\* Bindings nor by Console: it leaves run() and execute(filename) as it was
\* raised, ending the call, and nothing is displayed for it.
C11_HandlerErrorPropagates ==
  HandlerRaised =>
    /\ last.outcome = last.dispatch
    /\ last.call = last.dispatch
    /\ last.shown = <<>>
    /\ pc = "idle"

\* the user's interrupt has just reached run() or execute(filename): between
\* two lines, or while a handler was running
Interrupted ==
  \/ last.op \in {"runInterrupt", "execInterrupt"}
  \/ /\ last.op \in {"runLine", "execLine"}
     /\ last.outcome = Raise("KeyboardInterrupt", <<>>)

\* C12: an interrupt that arrives inside run()'s loop or during the line
\* processing of execute(filename) ends that call gracefully: run() displays
\* an empty line and "Exiting...", execute(filename) displays
\* "Terminating...", the call returns normally, and it reads and dispatches
\* no further line.
C12_InterruptEndsCall ==
  Interrupted =>
    /\ last.op \in {"runInterrupt", "runLine"} =>
         last.shown = << <<>>, <<"E", "x", "i", "t", "i", "n", "g", ".", ".", ".">> >>
    /\ last.op \in {"execInterrupt", "execLine"} =>
         last.shown = << <<"T", "e", "r", "m", "i", "n", "a", "t", "i", "n", "g",
                           ".", ".", ".">> >>
    /\ last.call = Return(NoneValue)
    /\ pc = "idle"
    /\ ~ENABLED (\E line \in Lines : RunLine(line))
    /\ ~ENABLED ExecLine

\* the interrupt arrived while a handler of run()'s second line was running
C12_Witness ==
  /\ last.op = "runLine"
  /\ last.reads = 2
  /\ last.invoked = <<[h |-> "hInt", args |-> <<>>]>>
  /\ last.shown = << <<>>, ExitingMsg >>
  /\ last.call = Return(NoneValue)
  /\ pc = "idle"

\* C13: when the script file cannot be opened, execute(filename) dispatches
\* nothing, invokes no handler, displays the script-file error message and
\* returns normally; and that message is displayed for nothing but a failure
\* to open or read the script file.
C13_ScriptErrorOnlyForScriptFile ==
  /\ last.op = "execFail" =>
       /\ ~last.called
       /\ last.invoked = <<>>
       /\ last.shown = <<ScriptErrorMsg>>
       /\ last.call = Return(NoneValue)
       /\ pc = "idle"
  /\ (\E i \in DOMAIN last.shown : last.shown[i] = ScriptErrorMsg) =>
       last.op = "execFail"

\* C14: lastArgs is stored before the handler is invoked: the arguments a
\* handler finds through argc and getArg while it runs are the ones it was
\* called with, the tokens after the command word of the same call; for the
\* tokens ["q", "a", "B"] it reads getArg(0) = "a".
C14_HandlerSeesItsOwnArgs ==
  (last.called /\ last.invoked # <<>>) =>
    /\ Len(last.seen) = Len(last.invoked)
    /\ \A n \in DOMAIN last.invoked :
         /\ last.seen[n] = last.invoked[n].args
         /\ argc(last.seen[n]) = Len(last.tokens) - 1
         /\ \A i \in 0 .. Len(last.tokens) - 2, d \in Fallbacks :
              getArg(last.seen[n], i, d) = Return(last.tokens[i + 2])

\* the handler of the line "q a B" read "a" as its first argument
C14_Witness ==
  /\ last.op = "runLine"
  /\ last.line = <<"q", " ", "a", " ", "B">>
  /\ last.tokens = <<sQ, sA, sB>>
  /\ last.invoked = <<[h |-> "h1", args |-> <<sA, sB>>]>>
  /\ getArg(last.seen[1], 0, <<>>) = Return(sA)

\* C15: stop() takes effect only while run()'s loop is active.  Whatever the
\* running flag was when run() is called, also right after a stop() made
\* before the call or by a handler during execute(filename), run() enters its
\* loop with the flag true and reads and processes input; and during
\* execute(filename) a stopped console still takes the next line.
C15_StopBeforeRunHasNoEffect ==
  /\ last.op = "run" =>
       /\ running
       /\ pc = "run"
       /\ reads = 0
       /\ ENABLED (\E line \in Lines : RunLine(line))
  /\ (pc = "exec" /\ stopped /\ pos < Len(script)) =>
       /\ ~running
       /\ ENABLED ExecLine

\* run() has been entered right after a stop() and waits for its first line
C15_Witness ==
  /\ last.op = "run"
  /\ last.stopped
  /\ running
  /\ pc = "run"
  /\ ENABLED RunLine(<<"q">>)

\* C16: the parts of the dispatch state are independent.  add, setDefault,
\* contains, asList and getArg leave lastArgs alone; a Bindings.execute call
\* leaves the table and the default alone; add changes the entry of its own
\* command name and nothing else, setDefault the default and nothing else.
C16_DispatchStateFrames ==
  [][/\ last'.op \in {"add", "setDefault", "contains", "asList", "getArg"} =>
          args' = args
     /\ last'.op \in {"contains", "asList", "getArg"} =>
          (commands' = commands /\ default' = default)
     /\ last'.called => (commands' = commands /\ default' = default)
     /\ last'.op = "add" =>
          /\ default' = default
          /\ DOMAIN commands' = DOMAIN commands \cup {last'.command}
          /\ commands'[last'.command] = last'.handler
          /\ \A c \in DOMAIN commands \ {last'.command} :
               commands'[c] = commands[c]
     /\ last'.op = "setDefault" =>
          /\ commands' = commands
          /\ default' = last'.handler]_vars

\* an add made while lastArgs, another table entry and the default are set
C16_Witness ==
  /\ last.op = "add"
  /\ last.command = sG
  /\ args = <<sA, sB>>
  /\ sQ \in DOMAIN commands
  /\ sGQ \in DOMAIN commands
  /\ callable(default)

\* run() has just returned or raised to its caller
RunOver ==
  /\ last.op \in {"runLine", "runReturn", "runInterrupt", "runEOF"}
  /\ last.call # InProgress

\* run() has just returned through its except KeyboardInterrupt clause
RunInterrupted ==
  \/ last.op = "runInterrupt"
  \/ last.op = "runLine" /\ last.outcome = Raise("KeyboardInterrupt", <<>>)

\* C17 as stated: after run() has returned the running flag is false only
\* when the loop ended through stop(), and after a return through the
\* interrupt path it is still true.
C17_InterruptLeavesFlagTrue ==
  /\ (RunOver /\ ~running) => (last.op = "runReturn" /\ last.stopped)
  /\ (RunOver /\ RunInterrupted) => running

\* C17, amended: after run() is over the running flag is false exactly when a
\* handler called stop() during that call; run() itself never resets it, so
\* after a return through the interrupt path (or an escaping error) it is
\* true unless stop() had been called before the interrupt arrived.  A
\* return by the loop test always has the flag false.
C17_FlagFalseIffStopped ==
  RunOver =>
    /\ running = ~last.stopped
    /\ last.op = "runReturn" => ~running
    /\ (RunInterrupted /\ ~last.stopped) => running

\* run() returned through the interrupt path after two lines, flag still true
C17_Witness ==
  /\ last.op = "runInterrupt"
  /\ last.reads = 2
  /\ ~last.stopped
  /\ running
  /\ pc = "idle"

\* C18: the default handler stands in only for a name that is absent from the
\* table.  A call whose command is registered with a value that is not
\* callable (None) fails as not recognized and invokes nothing, the default
\* handler included, also while a callable default is set.
C18_NonCallableBindingNotReplaced ==
  (/\ last.called
   /\ last.tokens # <<>>
   /\ Head(last.tokens) \in DOMAIN commands
   /\ ~callable(commands[Head(last.tokens)]))
  => /\ last.invoked = <<>>
     /\ last.seen = <<>>
     /\ last.dispatch.kind = "raise"
     /\ last.dispatch.exc = "CommandBindingException"
     /\ last.dispatch.msg = Head(last.tokens) \o Suffix
     /\ args = Tail(last.tokens)

\* the line "g" of run(), with "g" bound to None and h2 the default, was
\* answered with "g: command not recognized"
C18_Witness ==
  /\ last.op = "runLine"
  /\ last.tokens = <<sG>>
  /\ sG \in DOMAIN commands
  /\ commands[sG] = None
  /\ default = "h2"
  /\ last.invoked = <<>>
  /\ last.shown = << <<"g">> \o Suffix >>

====
